---- MODULE Spec2Model ----
(***************************************************************************)
(* A model of the locker / async-locker synchronization core:              *)
(*   - WakerSet (async-locker/src/waker_set.rs): a registry of wake        *)
(*     handles kept in a Mutex<Inner> whose raw lock also carries a 2-bit  *)
(*     tag that is read without taking the lock;                           *)
(*   - Mutex / RawExclusiveGuard (locker/src/mutex.rs,                     *)
(*     locker/src/exclusive_lock/raw.rs): guard-based mutual exclusion.    *)
(*                                                                         *)
(* The raw lock (tagged_spin::RawLock) and the slab (crate::slab) are not  *)
(* part of the source files; they are modelled from their contracts.       *)
(***************************************************************************)
EXTENDS Integers, FiniteSets, Sequences, TLC

\* ------------------------------------------------------------------ bounds
NumThreads == 2
MaxEntries == 3
MaxValue == 2
MaxCalls == 6

Threads == 1..NumThreads
Keys == 0..(MaxEntries - 1)
\* "no key" and "no value": outside Keys and outside 0..MaxValue
NoKey == MaxEntries
NoValue == MaxValue + 1

\* --------------------------------------------------------------- constants
\* waker_set.rs:17 and :20
NOTIFIED == 1
NOTIFIABLE == 2
\* once/local.rs:16 and :17
DONE_BIT == 1
POISON_BIT == 2
\* the tag values the model uses, and "no tag value"
Tags == 0..(DONE_BIT + POISON_BIT)
NoTag == DONE_BIT + POISON_BIT + 1

VARIABLES
    entries,          \* Inner.entries: Keys -> "Some" | "None" (Option<Waker>) | "Free" | "Vacant"
    notifiable,       \* Inner.notifiable (usize, see USub)
    tag,              \* the raw lock's tag bits
    locked,           \* the raw lock's exclusive-ownership bit
    guard,            \* the threads that own an ExclusiveGuard of the mutex
    pc,               \* each thread's position
    op,               \* the operation a thread is running ("none" when idle)
    key,              \* the key argument (remove, cancel) or result (insert)
    ret,              \* the boolean result of the operation
    must,             \* notify_*: entries registered before it started and untouched since
    woke,             \* the keys whose wake handle the lock holder's operation has invoked
    pre,              \* Inner and the tag as the lock holder found them
    round,            \* the latest insert and the Inner it found, while nothing else touched Inner
    invoked,          \* per key: invocations of the handle stored by the latest insert
    anyWakes,         \* entries woken by notify_any since the last insert/remove/cancel
    unwinding,        \* the thread is unwinding from a panic
    overflow_checks,  \* the build: TRUE = arithmetic overflow panics, FALSE = it wraps
    calls,            \* the number of WakerSet calls made so far
    value,            \* the value protected by the generic Mutex<L, T>
    seen,             \* the value a guard holder last read or wrote through its guard
    sawGuard,         \* try_lock: a guard was alive when it executed
    lastWrite,        \* the latest write to the protected value: who wrote, and what
    uniq,             \* generic lock L: the exc locks held (more than one after uniq_split)
    shr,              \* generic lock L: the shr locks held
    eg,               \* per thread: the RawExclusiveGuards of L it owns
    sg,               \* per thread: the RawShareGuards of L it owns
    by,               \* once lock: the caller of the latest operation
    got,              \* once lock: per caller, the tag value its latest tag operation returned
    marked,           \* once lock: mark_done has been called
    poisoned          \* once lock: get_and_mark_poisoned has been called

\* the raw lock and the guards; each thread's call
lockVars == <<locked, guard>>
callVars == <<pc, op, key, ret>>
\* Inner, and the record of what the WakerSet's operations did
innerVars == <<entries, notifiable, invoked, anyWakes>>
opVars == <<must, woke, pre, round, unwinding>>
envVars == <<overflow_checks, calls>>
\* the generic Mutex's protected value
mutexVars == <<value, seen, sawGuard, lastWrite>>
\* the generic lock L and its guards
guardVars == <<uniq, shr, eg, sg>>
\* the record of the calls made on the once lock
onceVars == <<by, got, marked, poisoned>>

vars == <<lockVars, callVars, innerVars, tag, opVars, envVars, mutexVars, guardVars, onceVars>>

\* ------------------------------------------------------------- usize
(* A usize is kept as its residue modulo 2^64 of least magnitude: -1 stands *)
(* for usize::MAX.  Addition and subtraction of residues are exact modulo    *)
(* 2^64 as long as magnitudes stay far below 2^63, which the bounds ensure.  *)
ULess(a, b) ==
    IF (a < 0) = (b < 0) THEN a < b ELSE b < 0
\* a - b on usize: panics when the build checks overflow and a < b, else wraps
USub(a, b) ==
    IF overflow_checks /\ ULess(a, b)
    THEN [val |-> a, panic |-> TRUE]
    ELSE [val |-> a - b, panic |-> FALSE]

\* ------------------------------------------------------------- slab
(* The keyed store of Option<Waker>: a key holds a handle ("Some"), or the   *)
(* None a notifier left when it took the handle, or it was freed by remove  *)
(* ("Free"), or it has never been allocated ("Vacant").                     *)
SlabEmpty == [k \in Keys |-> "Vacant"]
SlabOccupied(s) == {k \in Keys : s[k] \in {"Some", "None"}}
SlabVacant(s) == Keys \ SlabOccupied(s)
SlabLen(s) == Cardinality(SlabOccupied(s))
\* insert: the keys it may return: a previously freed key where there is one,
\* else the next fresh key
SlabFreed(s) == {k \in Keys : s[k] = "Free"}
SlabNextKeys(s) ==
    IF SlabFreed(s) # {} THEN SlabFreed(s)
    ELSE {k \in SlabVacant(s) : \A j \in SlabVacant(s) : k <= j}
SlabInsert(s, k, v) == [s EXCEPT ![k] = v]
\* remove(key): frees the key and returns the handle it held, None when the
\* handle had already been removed
SlabRemove(s, k) ==
    [slab |-> [s EXCEPT ![k] = "Free"],
     val |-> IF s[k] = "Some" THEN "Some" ELSE "None"]

Live(s) == {k \in Keys : s[k] = "Some"}
Taken(s) == {k \in Keys : s[k] = "None"}

\* ------------------------------------------------------------- raw lock
\* RawExclusiveLock::uniq_lock returns once exclusive ownership is acquired
uniq_lock_ready == ~locked
\* RawExclusiveLock::uniq_try_lock: TRUE iff it acquired the lock
uniq_try_lock_result == ~locked
\* the lock bit after an acquisition / after uniq_unlock
uniq_acquired == TRUE
uniq_released == FALSE
\* tag(ordering) and swap_tag(new, ordering) -> previous
tag_read == tag
swap_tag(new) == [prev |-> tag, now |-> new]

\* ------------------------------------------------------------- Inner
InnerOf(s, n, f) == [entries |-> s, notifiable |-> n, tag |-> f]
NoInner == InnerOf(SlabEmpty, 0, 0)
NoThread == NumThreads + 1
NoRound == [on |-> FALSE, by |-> NoThread, key |-> NoKey, inner |-> NoInner]

Min(S) == CHOOSE x \in S : \A y \in S : x <= y

\* a bug: the test succeeds for every occupied key, handle or not
RemovedIsSome_anyEntry(r) == TRUE

\* waker_set.rs:71: `inner.entries.remove(key).is_some()` and
\* waker_set.rs:84: the `Some(_)` arm of `match inner.entries.remove(key)`
RemovedIsSome(r) == r.val = "Some"

\* a bug: the handle is cloned and woken, and stays in the entry
Take_keeps(s, i) == s
\* waker_set.rs:87 and :155: `opt_waker.take()` leaves None in the entry
Take(s, i) == [s EXCEPT ![i] = "None"]

\* a bug: insert forgets `notifiable += 1`
InsertInner_noCount(s, n, k) ==
    [entries |-> SlabInsert(s, k, "Some"), notifiable |-> n,
     woke |-> {}, ret |-> FALSE, panic |-> FALSE]

\* WakerSet::insert, lines 61-63, with the slab's choice of key k
InsertInner(s, n, k) ==
    [entries |-> SlabInsert(s, k, "Some"), notifiable |-> n + 1,
     woke |-> {}, ret |-> FALSE, panic |-> FALSE]

\* a bug: remove decrements whatever the entry held
RemoveInner_alwaysDecrement(s, n, k) ==
    [entries |-> SlabRemove(s, k).slab, notifiable |-> USub(n, 1).val,
     woke |-> {}, ret |-> FALSE, panic |-> USub(n, 1).panic]

\* WakerSet::remove, lines 71-73
RemoveInner(s, n, k) ==
    LET r == SlabRemove(s, k)
        d == USub(n, 1)
    IN  IF RemovedIsSome(r)
        THEN [entries |-> r.slab, notifiable |-> d.val,
              woke |-> {}, ret |-> FALSE, panic |-> d.panic]
        ELSE [entries |-> r.slab, notifiable |-> n,
              woke |-> {}, ret |-> FALSE, panic |-> FALSE]

\* a bug: cancel without the transfer of the missed notification
CancelInner_noTransfer(s, n, k) ==
    LET r == SlabRemove(s, k)
    IN  [entries |-> r.slab, notifiable |-> IF r.val = "Some" THEN n - 1 ELSE n,
         woke |-> {}, ret |-> FALSE, panic |-> FALSE]

\* a bug: cancel decrements before it looks at what the entry held
CancelInner_decrementsFirst(s, n, k) ==
    LET r == SlabRemove(s, k)
        d == USub(n, 1)
        d2 == USub(d.val, 1)
    IN  IF RemovedIsSome(r) \/ Live(r.slab) = {}
        THEN [entries |-> r.slab, notifiable |-> d.val,
              woke |-> {}, ret |-> FALSE, panic |-> d.panic]
        ELSE LET i == Min(Live(r.slab))
             IN  [entries |-> Take(r.slab, i), notifiable |-> d2.val,
                  woke |-> {i}, ret |-> ~(d.panic \/ d2.panic),
                  panic |-> d.panic \/ d2.panic]

\* WakerSet::cancel, lines 83-98
CancelInner(s, n, k) ==
    LET r == SlabRemove(s, k)
        d == USub(n, 1)
    IN  IF RemovedIsSome(r)
        THEN [entries |-> r.slab, notifiable |-> d.val,
              woke |-> {}, ret |-> FALSE, panic |-> d.panic]
        ELSE IF Live(r.slab) = {}
        THEN [entries |-> r.slab, notifiable |-> n,
              woke |-> {}, ret |-> FALSE, panic |-> FALSE]
        ELSE LET i == Min(Live(r.slab))
             IN  [entries |-> Take(r.slab, i), notifiable |-> d.val,
                  woke |-> {i}, ret |-> ~d.panic, panic |-> d.panic]

\* bugs: the loop stops after its first wake in every mode, or in none; the
\* loop never stops after its first entry
BreakAfterWake_always(mode) == TRUE
BreakAfterWake_never(mode) == FALSE
BreakAfterEntry_never(mode) == FALSE

\* waker_set.rs:160: `if n == Notify::One { break; }` after a wake
BreakAfterWake(mode) == mode = "One"
\* waker_set.rs:165: `if n == Notify::Any { break; }` after the entry
BreakAfterEntry(mode) == mode = "Any"

\* WakerSet::notify, the loop of lines 153-168 from iteration position i
RECURSIVE NotifyLoop(_, _, _, _, _)
NotifyLoop(i, s, n, w, mode) ==
    IF i >= MaxEntries
    THEN [entries |-> s, notifiable |-> n, woke |-> w, ret |-> w # {}, panic |-> FALSE]
    ELSE IF i \notin SlabOccupied(s)
    THEN NotifyLoop(i + 1, s, n, w, mode)
    ELSE IF s[i] = "Some"
    THEN LET d == USub(n, 1)
             s2 == Take(s, i)
             w2 == w \cup {i}
         IN  IF d.panic
             THEN [entries |-> s2, notifiable |-> n, woke |-> w2,
                   ret |-> FALSE, panic |-> TRUE]
             ELSE IF BreakAfterWake(mode) \/ BreakAfterEntry(mode)
             THEN [entries |-> s2, notifiable |-> d.val, woke |-> w2,
                   ret |-> TRUE, panic |-> FALSE]
             ELSE NotifyLoop(i + 1, s2, d.val, w2, mode)
    ELSE IF BreakAfterEntry(mode)
    THEN [entries |-> s, notifiable |-> n, woke |-> w, ret |-> w # {}, panic |-> FALSE]
    ELSE NotifyLoop(i + 1, s, n, w, mode)

NotifyInner(s, n, mode) == NotifyLoop(0, s, n, {}, mode)

\* a bug: the flag never carries NOTIFIED
DropFlag_noNotified(s, n) == IF n # 0 THEN NOTIFIABLE ELSE 0

\* Lock::drop, lines 189-199: the flag computed from Inner
DropFlag(s, n) ==
    (IF USub(SlabLen(s), n).val # 0 THEN NOTIFIED ELSE 0)
    + (IF n # 0 THEN NOTIFIABLE ELSE 0)
\* Lock::drop, line 192: `entries.len() - notifiable` overflows
DropPanics(s, n) == USub(SlabLen(s), n).panic

HasBit(f, b) == (f \div b) % 2 = 1
\* a bug: every mode uses notify_any's test
FlagAllows_anyTest(f, mode) == ~HasBit(f, NOTIFIED) /\ HasBit(f, NOTIFIABLE)
\* notify_any / notify_one / notify_all: the fast-path test on the flag
FlagAllows(f, mode) ==
    IF mode = "Any"
    THEN ~HasBit(f, NOTIFIED) /\ HasBit(f, NOTIFIABLE)
    ELSE HasBit(f, NOTIFIABLE)


\* ------------------------------------------------------------- state
NotifyOps == {"notify_any", "notify_one", "notify_all"}
\* a bug: notify_one passes Notify::Any
ModeOf_anyForOne(o) == IF o = "notify_all" THEN "All" ELSE "Any"
\* the Notify argument of notify_any (line 114), notify_one (127), notify_all (139)
ModeOf(o) ==
    IF o = "notify_any" THEN "Any" ELSE IF o = "notify_one" THEN "One" ELSE "All"

\* WakerSet::new, lines 46-53, and no call in progress
Init ==
    /\ entries = SlabEmpty
    /\ notifiable = 0
    /\ tag = 0
    /\ locked = FALSE
    /\ guard = {}
    /\ pc = [t \in Threads |-> "idle"]
    /\ op = [t \in Threads |-> "none"]
    /\ key = [t \in Threads |-> NoKey]
    /\ ret = [t \in Threads |-> FALSE]
    /\ must = [t \in Threads |-> {}]
    /\ woke = {}
    /\ pre = NoInner
    /\ round = NoRound
    /\ invoked = [k \in Keys |-> 0]
    /\ anyWakes = 0
    /\ unwinding = [t \in Threads |-> FALSE]
    /\ overflow_checks \in BOOLEAN
    /\ calls = 0
    /\ value = 0
    /\ seen = [t \in Threads |-> NoValue]
    /\ sawGuard = [t \in Threads |-> FALSE]
    /\ lastWrite = [by |-> NoThread, val |-> value]
    /\ uniq = 0
    /\ shr = 0
    /\ eg = [t \in Threads |-> 0]
    /\ sg = [t \in Threads |-> 0]
    /\ by = NoThread
    /\ got = [t \in Threads |-> NoTag]
    /\ marked = FALSE
    /\ poisoned = FALSE

\* the insert that stored key k has not released the internal lock yet
Inserting(k) ==
    \E u \in Threads : op[u] = "insert" /\ pc[u] \in {"drop", "unlock"} /\ key[u] = k

\* a key a caller can hold: returned by a completed insert and not yet handed
\* to remove or cancel
KeyHeld(k) ==
    /\ k \in SlabOccupied(entries)
    /\ ~Inserting(k)
    /\ \A u \in Threads :
        ~(op[u] \in {"remove", "cancel"} /\ pc[u] \in {"lock", "body"} /\ key[u] = k)

\* entries whose insert has completed and that still hold their handle
Registered == {k \in Live(entries) : ~Inserting(k)}

\* ------------------------------------------------------------- guards
\* a bug: the guard is made without waiting for uniq_lock
new_noWait(t) ==
    /\ locked' = uniq_acquired
    /\ guard' = guard \cup {t}

\* RawExclusiveGuard::new, raw.rs:39-43: uniq_lock, then the guard
new(t) ==
    /\ uniq_lock_ready
    /\ locked' = uniq_acquired
    /\ guard' = guard \cup {t}

\* a bug: a guard is made whatever uniq_try_lock answered
try_new_unchecked(t) ==
    /\ locked' = TRUE
    /\ guard' = guard \cup {t}
    /\ ret' = [ret EXCEPT ![t] = TRUE]

\* RawExclusiveGuard::try_new, raw.rs:45-51: a guard iff uniq_try_lock succeeded
try_new(t) ==
    /\ locked' = (locked \/ uniq_try_lock_result)
    /\ guard' = IF uniq_try_lock_result THEN guard \cup {t} ELSE guard
    /\ ret' = [ret EXCEPT ![t] = uniq_try_lock_result]

\* Drop for _RawExclusiveGuard, raw.rs:11-15: uniq_unlock
drop_guard(t) ==
    /\ locked' = uniq_released
    /\ guard' = guard \ {t}

\* ------------------------------------------------------------- WakerSet calls
\* a call of operation o with key argument k, up to its `self.lock()`
Call(t, o, k, next) ==
    /\ pc[t] = "idle" /\ calls < MaxCalls
    /\ calls' = calls + 1
    /\ pc' = [pc EXCEPT ![t] = next]
    /\ op' = [op EXCEPT ![t] = o]
    /\ key' = [key EXCEPT ![t] = k]
    /\ ret' = [ret EXCEPT ![t] = FALSE]
    /\ must' = [must EXCEPT ![t] = IF o \in NotifyOps THEN Registered ELSE {}]
    /\ round' = IF round.by = t /\ ~(o = "remove" /\ k = round.key) THEN NoRound ELSE round
    /\ UNCHANGED <<lockVars, innerVars, tag, woke, pre, unwinding, overflow_checks,
                   mutexVars, guardVars, onceVars>>

\* WakerSet::insert, lines 57-59
insert(t) ==
    \* the bounded slab has a key left for this insert and for those under way
    /\ Cardinality(SlabVacant(entries)) >
           Cardinality({u \in Threads : op[u] = "insert" /\ pc[u] \in {"lock", "body"}})
    /\ Call(t, "insert", NoKey, "lock")

\* WakerSet::remove(key), lines 68-69
remove(t, k) ==
    /\ KeyHeld(k)
    /\ Call(t, "remove", k, "lock")

\* WakerSet::cancel(key), lines 80-81
cancel(t, k) ==
    /\ KeyHeld(k)
    /\ Call(t, "cancel", k, "lock")

\* a bug: notify(n) is called whatever the flag says
NotifyCall_alwaysLocks(t, o) == Call(t, o, NoKey, "lock")

\* the flag test of notify_any / notify_one / notify_all: notify(n), or return false
NotifyCall(t, o) ==
    Call(t, o, NoKey, IF FlagAllows(tag_read, ModeOf(o)) THEN "lock" ELSE "done")

notify_any(t) == NotifyCall(t, "notify_any")
notify_one(t) == NotifyCall(t, "notify_one")
notify_all(t) == NotifyCall(t, "notify_all")

\* WakerSet::lock, lines 174-178 -> Mutex::lock -> RawExclusiveGuard::new
lock(t) ==
    /\ pc[t] = "lock"
    /\ new(t)
    /\ pc' = [pc EXCEPT ![t] = "body"]
    /\ pre' = InnerOf(entries, notifiable, tag)
    /\ round' = IF op[t] = "insert"
                THEN [on |-> TRUE, by |-> t, key |-> NoKey,
                      inner |-> InnerOf(entries, notifiable, tag)]
                ELSE round
    /\ UNCHANGED <<op, key, ret, innerVars, tag, must, woke, unwinding, envVars, mutexVars, guardVars, onceVars>>

\* the critical section of the operation, r being its effect on Inner
Apply(t, r, removed, inserted, any) ==
    /\ entries' = r.entries
    /\ notifiable' = r.notifiable
    /\ woke' = r.woke
    /\ ret' = [ret EXCEPT ![t] = r.ret]
    /\ unwinding' = [unwinding EXCEPT ![t] = r.panic]
    /\ invoked' = [k \in Keys |->
                     IF k \in removed \cup inserted THEN 0
                     ELSE IF k \in r.woke THEN invoked[k] + 1 ELSE invoked[k]]
    /\ must' = [u \in Threads |->
                  IF u = t THEN must[u] ELSE must[u] \ (r.woke \cup removed)]
    /\ round' = IF round.by # t THEN NoRound
                ELSE IF inserted # {} THEN [round EXCEPT !.key = Min(inserted)]
                ELSE round
    /\ anyWakes' = any
    /\ pc' = [pc EXCEPT ![t] = "drop"]
    /\ UNCHANGED <<lockVars, op, tag, pre, envVars, mutexVars, guardVars, onceVars>>

insert_body(t) ==
    /\ pc[t] = "body" /\ op[t] = "insert"
    /\ \E k \in SlabNextKeys(entries) :
        /\ Apply(t, InsertInner(entries, notifiable, k), {}, {k}, 0)
        /\ key' = [key EXCEPT ![t] = k]

remove_body(t) ==
    /\ pc[t] = "body" /\ op[t] = "remove"
    /\ Apply(t, RemoveInner(entries, notifiable, key[t]), {key[t]}, {}, 0)
    /\ UNCHANGED key

cancel_body(t) ==
    /\ pc[t] = "body" /\ op[t] = "cancel"
    /\ Apply(t, CancelInner(entries, notifiable, key[t]), {key[t]}, {}, 0)
    /\ UNCHANGED key

notify(t) ==
    /\ pc[t] = "body" /\ op[t] \in NotifyOps
    /\ LET r == NotifyInner(entries, notifiable, ModeOf(op[t]))
       IN  Apply(t, r, {}, {},
                 IF op[t] = "notify_any" THEN anyWakes + Cardinality(r.woke) ELSE anyWakes)
    /\ UNCHANGED key

\* Drop for Lock, lines 188-205: compute the flag and swap it into the tag
Lock_drop(t) ==
    /\ pc[t] = "drop"
    /\ IF DropPanics(entries, notifiable)
       THEN /\ unwinding' = [unwinding EXCEPT ![t] = TRUE]
            /\ UNCHANGED tag
       ELSE /\ tag' = swap_tag(DropFlag(entries, notifiable)).now
            /\ UNCHANGED unwinding
    /\ pc' = [pc EXCEPT ![t] = "unlock"]
    /\ UNCHANGED <<lockVars, op, key, ret, innerVars, must, woke, pre, round, envVars,
                   mutexVars, guardVars, onceVars>>

\* a bug: cancel's early `return true` leaves without releasing the lock
guard_drop_leaksOnTransfer(t) ==
    /\ pc[t] = "unlock"
    /\ IF op[t] = "cancel" /\ ret[t] THEN UNCHANGED lockVars ELSE drop_guard(t)
    /\ pc' = [pc EXCEPT ![t] = IF unwinding[t] THEN "panicked" ELSE "idle"]
    /\ op' = [op EXCEPT ![t] = "none"]
    /\ key' = [key EXCEPT ![t] = NoKey]
    /\ ret' = [ret EXCEPT ![t] = FALSE]
    /\ must' = [must EXCEPT ![t] = {}]
    /\ woke' = {}
    /\ pre' = NoInner
    /\ round' = IF op[t] = "insert" THEN round ELSE NoRound
    /\ UNCHANGED <<innerVars, tag, unwinding, envVars, mutexVars, guardVars, onceVars>>

\* Drop for _RawExclusiveGuard: uniq_unlock; the call returns, or the panic leaves it
guard_drop(t) ==
    /\ pc[t] = "unlock"
    /\ drop_guard(t)
    /\ pc' = [pc EXCEPT ![t] = IF unwinding[t] THEN "panicked" ELSE "idle"]
    /\ op' = [op EXCEPT ![t] = "none"]
    /\ key' = [key EXCEPT ![t] = NoKey]
    /\ ret' = [ret EXCEPT ![t] = FALSE]
    /\ must' = [must EXCEPT ![t] = {}]
    /\ woke' = {}
    /\ pre' = NoInner
    /\ round' = IF op[t] = "insert" THEN round ELSE NoRound
    /\ UNCHANGED <<innerVars, tag, unwinding, envVars, mutexVars, guardVars, onceVars>>

\* a notify_* call that did not take the lock returns false
return(t) ==
    /\ pc[t] = "done"
    /\ pc' = [pc EXCEPT ![t] = "idle"]
    /\ op' = [op EXCEPT ![t] = "none"]
    /\ must' = [must EXCEPT ![t] = {}]
    /\ UNCHANGED <<lockVars, key, ret, innerVars, tag, woke, pre, round, unwinding,
                   envVars, mutexVars, guardVars, onceVars>>

Next ==
    \/ \E t \in Threads : insert(t)
    \/ \E t \in Threads, k \in Keys : remove(t, k)
    \/ \E t \in Threads, k \in Keys : cancel(t, k)
    \/ \E t \in Threads : notify_any(t)
    \/ \E t \in Threads : notify_one(t)
    \/ \E t \in Threads : notify_all(t)
    \/ \E t \in Threads : lock(t)
    \/ \E t \in Threads : insert_body(t)
    \/ \E t \in Threads : remove_body(t)
    \/ \E t \in Threads : cancel_body(t)
    \/ \E t \in Threads : notify(t)
    \/ \E t \in Threads : Lock_drop(t)
    \/ \E t \in Threads : guard_drop(t)
    \/ \E t \in Threads : return(t)

Spec == Init /\ [][Next]_vars

\* the steps of a call once it has the lock, and its return
Running(t) ==
    \/ insert_body(t) \/ remove_body(t) \/ cancel_body(t) \/ notify(t)
    \/ Lock_drop(t) \/ guard_drop(t) \/ return(t)

\* Fair scheduling: a thread inside a call keeps taking steps, and a thread
\* spinning in `self.lock()` gets the lock if it is free again and again.
FairSpec ==
    /\ Spec
    /\ \A t \in Threads : WF_vars(Running(t)) /\ SF_vars(lock(t))

\* ------------------------------------------------------------- Mutex<L, T>
wakerSetVars == <<innerVars, tag, opVars, envVars>>

\* Mutex::new(value), mutex.rs:110-124
MutexInit ==
    /\ entries = SlabEmpty
    /\ notifiable = 0
    /\ tag = 0
    /\ locked = FALSE
    /\ guard = {}
    /\ pc = [t \in Threads |-> "idle"]
    /\ op = [t \in Threads |-> "none"]
    /\ key = [t \in Threads |-> NoKey]
    /\ ret = [t \in Threads |-> FALSE]
    /\ must = [t \in Threads |-> {}]
    /\ woke = {}
    /\ pre = NoInner
    /\ round = NoRound
    /\ invoked = [k \in Keys |-> 0]
    /\ anyWakes = 0
    /\ unwinding = [t \in Threads |-> FALSE]
    /\ overflow_checks = FALSE
    /\ calls = 0
    /\ value \in 0..MaxValue
    /\ seen = [t \in Threads |-> NoValue]
    /\ sawGuard = [t \in Threads |-> FALSE]
    /\ lastWrite = [by |-> NoThread, val |-> value]
    /\ uniq = 0
    /\ shr = 0
    /\ eg = [t \in Threads |-> 0]
    /\ sg = [t \in Threads |-> 0]
    /\ by = NoThread
    /\ got = [t \in Threads |-> NoTag]
    /\ marked = FALSE
    /\ poisoned = FALSE

\* Mutex::lock is called, mutex.rs:131
Mutex_lock(t) ==
    /\ pc[t] = "idle"
    /\ pc' = [pc EXCEPT ![t] = "acquire"]
    /\ op' = [op EXCEPT ![t] = "lock"]
    /\ seen' = [seen EXCEPT ![t] = NoValue]
    /\ UNCHANGED <<lockVars, key, ret, value, sawGuard, lastWrite, wakerSetVars, guardVars, onceVars>>

\* Mutex::lock returns its guard, mutex.rs:132-134
Mutex_locked(t) ==
    /\ pc[t] = "acquire"
    /\ new(t)
    /\ pc' = [pc EXCEPT ![t] = "held"]
    /\ UNCHANGED <<op, key, ret, mutexVars, wakerSetVars, guardVars, onceVars>>

\* Mutex::try_lock, mutex.rs:138-145
Mutex_try_lock(t) ==
    /\ pc[t] = "idle"
    /\ try_new(t)
    /\ sawGuard' = [sawGuard EXCEPT ![t] = guard # {}]
    /\ op' = [op EXCEPT ![t] = "try_lock"]
    /\ pc' = [pc EXCEPT ![t] = IF ret'[t] THEN "held" ELSE "refused"]
    /\ seen' = [seen EXCEPT ![t] = NoValue]
    /\ UNCHANGED <<key, value, lastWrite, wakerSetVars, guardVars, onceVars>>

\* the guard holder reads the protected value
guard_read(t) ==
    /\ pc[t] = "held"
    /\ seen' = [seen EXCEPT ![t] = value]
    /\ UNCHANGED <<lockVars, callVars, value, sawGuard, lastWrite, wakerSetVars, guardVars, onceVars>>

\* the guard holder writes the protected value
guard_write(t, v) ==
    /\ pc[t] = "held"
    /\ value' = v
    /\ seen' = [seen EXCEPT ![t] = v]
    /\ lastWrite' = [by |-> t, val |-> v]
    /\ UNCHANGED <<lockVars, callVars, sawGuard, wakerSetVars, guardVars, onceVars>>

\* the guard is dropped
Mutex_unlock(t) ==
    /\ pc[t] = "held"
    /\ drop_guard(t)
    /\ pc' = [pc EXCEPT ![t] = "idle"]
    /\ op' = [op EXCEPT ![t] = "none"]
    /\ UNCHANGED <<key, ret, mutexVars, wakerSetVars, guardVars, onceVars>>

\* the caller of try_lock takes its None
refused_return(t) ==
    /\ pc[t] = "refused"
    /\ pc' = [pc EXCEPT ![t] = "idle"]
    /\ op' = [op EXCEPT ![t] = "none"]
    /\ sawGuard' = [sawGuard EXCEPT ![t] = FALSE]
    /\ UNCHANGED <<lockVars, key, ret, value, seen, lastWrite, wakerSetVars, guardVars, onceVars>>

MutexNext ==
    \/ \E t \in Threads : Mutex_lock(t)
    \/ \E t \in Threads : Mutex_locked(t)
    \/ \E t \in Threads : Mutex_try_lock(t)
    \/ \E t \in Threads : guard_read(t)
    \/ \E t \in Threads, v \in 0..MaxValue : guard_write(t, v)
    \/ \E t \in Threads : Mutex_unlock(t)
    \/ \E t \in Threads : refused_return(t)

MutexSpec == MutexInit /\ [][MutexNext]_vars

\* ------------------------------------------------------------- generic lock L
(* A raw lock with every capability the guards of exclusive_lock/raw.rs     *)
(* use: exclusive, fair unlock, split, downgrade, shared.  It is known by   *)
(* its trait contracts only: uniq counts the exc locks held (above one only *)
(* through uniq_split) and shr the shr locks held.  A fair unlock passes    *)
(* the lock to a waiter; which waiter gets the lock is left open here, so   *)
(* it releases as uniq_unlock does.                                         *)
MaxGuards == 2

\* a bug: an exclusive acquisition that looks at the exc locks only
uniq_can_lock_ignoresShr == uniq = 0

\* uniq_lock returns, uniq_try_lock answers true: no exc and no shr lock is held
uniq_can_lock == uniq = 0 /\ shr = 0
\* shr_lock returns, shr_try_lock answers true: no exc lock is held
shr_can_lock == uniq = 0
uniq_lock == uniq_can_lock /\ uniq' = uniq + 1 /\ shr' = shr
uniq_unlock == uniq' = uniq - 1 /\ shr' = shr
uniq_unlock_fair == uniq' = uniq - 1 /\ shr' = shr
uniq_split == uniq' = uniq + 1 /\ shr' = shr
\* RawExclusiveLockDowngrade::downgrade: the exc lock becomes a shr lock in one step
lock_downgrade == uniq' = uniq - 1 /\ shr' = shr + 1
shr_lock == shr_can_lock /\ shr' = shr + 1 /\ uniq' = uniq
shr_unlock == shr' = shr - 1 /\ uniq' = uniq
shr_split == shr' = shr + 1 /\ uniq' = uniq

\* ------------------------------------------------------------- guards of L
\* what the guard operations leave alone
restVars == <<lockVars, key, innerVars, tag, must, woke, pre, round, envVars, mutexVars, onceVars>>

\* the thread is between operations and owns no guard
Unheld(t) == pc[t] = "idle" /\ eg[t] = 0 /\ sg[t] = 0
\* the thread is inside unlocked(f): its guard exists but its lock is released
InUnlocked(t) == pc[t] \in {"in_f", "defer"}
\* the exc and shr locks that the guards (and a downgrade under way) of t stand for
ExcOwned(t) == IF InUnlocked(t) THEN eg[t] - 1 ELSE eg[t]
ShrOwned(t) == IF pc[t] = "from_raw" THEN sg[t] + 1 ELSE sg[t]
RECURSIVE SumOver(_, _)
SumOver(f, S) ==
    IF S = {} THEN 0
    ELSE LET x == CHOOSE y \in S : TRUE IN f[x] + SumOver(f, S \ {x})
ExcOwnedAll == SumOver([t \in Threads |-> ExcOwned(t)], Threads)
ShrOwnedAll == SumOver([t \in Threads |-> ShrOwned(t)], Threads)

\* the thread goes on to position p, its latest operation being o
Goes(t, p, o) ==
    /\ pc' = [pc EXCEPT ![t] = p]
    /\ op' = [op EXCEPT ![t] = o]

GuardInit == MutexInit /\ value = 0

\* RawExclusiveGuard::new is called, raw.rs:39-40
Guard_new(t) ==
    /\ Unheld(t)
    /\ Goes(t, "uniq_lock", "new")
    /\ UNCHANGED <<ret, unwinding, guardVars, restVars>>

\* uniq_lock has returned; from_raw, raw.rs:40-42
Guard_new_locked(t) ==
    /\ pc[t] = "uniq_lock"
    /\ uniq_lock
    /\ eg' = [eg EXCEPT ![t] = 1]
    /\ Goes(t, "idle", "new")
    /\ UNCHANGED <<ret, unwinding, sg, restVars>>

\* RawExclusiveGuard::try_new, raw.rs:45-51
Guard_try_new(t) ==
    /\ Unheld(t)
    /\ IF uniq_can_lock
       THEN uniq_lock /\ eg' = [eg EXCEPT ![t] = 1]
       ELSE UNCHANGED <<uniq, shr, eg>>
    /\ ret' = [ret EXCEPT ![t] = uniq_can_lock]
    /\ Goes(t, "tried", "try_new")
    /\ UNCHANGED <<unwinding, sg, restVars>>

\* the caller of a try_new has its answer
tried(t) ==
    /\ pc[t] = "tried"
    /\ pc' = [pc EXCEPT ![t] = "idle"]
    /\ UNCHANGED <<op, ret, unwinding, guardVars, restVars>>

\* Drop for _RawExclusiveGuard, raw.rs:11-15, at the end of a scope or while unwinding
Guard_drop(t) ==
    /\ pc[t] \in {"idle", "unwind"} /\ eg[t] > 0
    /\ uniq_unlock
    /\ eg' = [eg EXCEPT ![t] = @ - 1]
    /\ Goes(t, pc[t], "drop")
    /\ UNCHANGED <<ret, unwinding, sg, restVars>>

\* the thread panics while it owns guards: it unwinds
panic(t) ==
    /\ pc[t] = "idle" /\ eg[t] + sg[t] > 0
    /\ unwinding' = [unwinding EXCEPT ![t] = TRUE]
    /\ Goes(t, "unwind", "panic")
    /\ UNCHANGED <<ret, guardVars, restVars>>

\* the unwinding has dropped every guard of the thread
unwound(t) ==
    /\ pc[t] = "unwind" /\ eg[t] = 0 /\ sg[t] = 0
    /\ pc' = [pc EXCEPT ![t] = "panicked"]
    /\ UNCHANGED <<op, ret, unwinding, guardVars, restVars>>

\* RawExclusiveGuard::unlocked, raw.rs:61-66: uniq_unlock, then f runs.
\* Called on a guard that has no clone alive.
unlocked(t) ==
    /\ pc[t] = "idle" /\ eg[t] = 1
    /\ uniq_unlock
    /\ Goes(t, "in_f", "unlocked")
    /\ UNCHANGED <<ret, unwinding, eg, sg, restVars>>

\* RawExclusiveGuard::unlocked_fair, raw.rs:91-96
unlocked_fair(t) ==
    /\ pc[t] = "idle" /\ eg[t] = 1
    /\ uniq_unlock_fair
    /\ Goes(t, "in_f", "unlocked_fair")
    /\ UNCHANGED <<ret, unwinding, eg, sg, restVars>>

\* f returns, raw.rs:66 / :96
f_returns(t) ==
    /\ pc[t] = "in_f"
    /\ pc' = [pc EXCEPT ![t] = "defer"]
    /\ UNCHANGED <<op, ret, unwinding, guardVars, restVars>>

\* f panics
f_panics(t) ==
    /\ pc[t] = "in_f"
    /\ unwinding' = [unwinding EXCEPT ![t] = TRUE]
    /\ pc' = [pc EXCEPT ![t] = "defer"]
    /\ UNCHANGED <<op, ret, guardVars, restVars>>

\* a bug: uniq_lock follows f() as a plain statement, which a panic skips
defer_uniq_lock_plain(t) ==
    /\ pc[t] = "defer"
    /\ IF unwinding[t] THEN UNCHANGED <<uniq, shr>> ELSE uniq_lock
    /\ pc' = [pc EXCEPT ![t] = IF unwinding[t] THEN "unwind" ELSE "idle"]
    /\ UNCHANGED <<op, ret, unwinding, eg, sg, restVars>>

\* `defer!(self.lock.uniq_lock())`, raw.rs:65 / :95: runs when the scope is
\* left, by return or by unwinding
defer_uniq_lock(t) ==
    /\ pc[t] = "defer"
    /\ uniq_lock
    /\ pc' = [pc EXCEPT ![t] = IF unwinding[t] THEN "unwind" ELSE "idle"]
    /\ UNCHANGED <<op, ret, unwinding, eg, sg, restVars>>

\* a bug: the guard is not kept from its Drop, which unlocks once more
unlock_fair_thenDrop(t) ==
    /\ pc[t] = "idle" /\ eg[t] > 0
    /\ uniq' = uniq - 2 /\ shr' = shr
    /\ eg' = [eg EXCEPT ![t] = @ - 1]
    /\ Goes(t, "idle", "unlock_fair")
    /\ UNCHANGED <<ret, unwinding, sg, restVars>>

\* RawExclusiveGuard::unlock_fair, raw.rs:78-83: ManuallyDrop, uniq_unlock_fair
unlock_fair(t) ==
    /\ pc[t] = "idle" /\ eg[t] > 0
    /\ uniq_unlock_fair
    /\ eg' = [eg EXCEPT ![t] = @ - 1]
    /\ Goes(t, "idle", "unlock_fair")
    /\ UNCHANGED <<ret, unwinding, sg, restVars>>

\* a bug: the exc lock is released, and the share guard made as if a shr lock were held
downgrade_unlocks(t) ==
    /\ pc[t] = "idle" /\ eg[t] = 1
    /\ uniq_unlock
    /\ eg' = [eg EXCEPT ![t] = 0]
    /\ Goes(t, "from_raw", "downgrade")
    /\ UNCHANGED <<ret, unwinding, sg, restVars>>

\* RawExclusiveGuard::downgrade, raw.rs:105-107: ManuallyDrop, lock.downgrade().
\* Called on a guard that has no clone alive.
downgrade(t) ==
    /\ pc[t] = "idle" /\ eg[t] = 1
    /\ lock_downgrade
    /\ eg' = [eg EXCEPT ![t] = 0]
    /\ Goes(t, "from_raw", "downgrade")
    /\ UNCHANGED <<ret, unwinding, sg, restVars>>

\* RawShareGuard::from_raw, raw.rs:108: the share guard of the downgraded lock
downgrade_from_raw(t) ==
    /\ pc[t] = "from_raw"
    /\ sg' = [sg EXCEPT ![t] = @ + 1]
    /\ pc' = [pc EXCEPT ![t] = "idle"]
    /\ UNCHANGED <<op, ret, unwinding, uniq, shr, eg, restVars>>

\* a bug: the new guard is made without uniq_split
clone_noSplit(t) ==
    /\ pc[t] = "idle" /\ eg[t] >= 1 /\ eg[t] < MaxGuards
    /\ eg' = [eg EXCEPT ![t] = @ + 1]
    /\ Goes(t, "idle", "clone")
    /\ UNCHANGED <<ret, unwinding, uniq, shr, sg, restVars>>

\* Clone for RawExclusiveGuard, raw.rs:114-122: uniq_split, then the new guard
clone(t) ==
    /\ pc[t] = "idle" /\ eg[t] >= 1 /\ eg[t] < MaxGuards
    /\ uniq_split
    /\ eg' = [eg EXCEPT ![t] = @ + 1]
    /\ Goes(t, "idle", "clone")
    /\ UNCHANGED <<ret, unwinding, sg, restVars>>

\* RawShareGuard::new is called: shr_lock
ShareGuard_new(t) ==
    /\ Unheld(t)
    /\ Goes(t, "shr_lock", "shr_new")
    /\ UNCHANGED <<ret, unwinding, guardVars, restVars>>

\* shr_lock has returned
ShareGuard_new_locked(t) ==
    /\ pc[t] = "shr_lock"
    /\ shr_lock
    /\ sg' = [sg EXCEPT ![t] = 1]
    /\ Goes(t, "idle", "shr_new")
    /\ UNCHANGED <<ret, unwinding, eg, restVars>>

\* RawShareGuard::try_new: shr_try_lock
ShareGuard_try_new(t) ==
    /\ Unheld(t)
    /\ IF shr_can_lock
       THEN shr_lock /\ sg' = [sg EXCEPT ![t] = 1]
       ELSE UNCHANGED <<uniq, shr, sg>>
    /\ ret' = [ret EXCEPT ![t] = shr_can_lock]
    /\ Goes(t, "tried", "shr_try_new")
    /\ UNCHANGED <<unwinding, eg, restVars>>

\* Clone for RawShareGuard: shr_split
ShareGuard_clone(t) ==
    /\ pc[t] = "idle" /\ sg[t] >= 1 /\ sg[t] < MaxGuards
    /\ shr_split
    /\ sg' = [sg EXCEPT ![t] = @ + 1]
    /\ Goes(t, "idle", "shr_clone")
    /\ UNCHANGED <<ret, unwinding, eg, restVars>>

\* Drop for RawShareGuard: shr_unlock
ShareGuard_drop(t) ==
    /\ pc[t] \in {"idle", "unwind"} /\ sg[t] > 0
    /\ shr_unlock
    /\ sg' = [sg EXCEPT ![t] = @ - 1]
    /\ Goes(t, pc[t], "shr_drop")
    /\ UNCHANGED <<ret, unwinding, eg, restVars>>

GuardNext ==
    \/ \E t \in Threads : Guard_new(t)
    \/ \E t \in Threads : Guard_new_locked(t)
    \/ \E t \in Threads : Guard_try_new(t)
    \/ \E t \in Threads : tried(t)
    \/ \E t \in Threads : Guard_drop(t)
    \/ \E t \in Threads : panic(t)
    \/ \E t \in Threads : unwound(t)
    \/ \E t \in Threads : unlocked(t)
    \/ \E t \in Threads : unlocked_fair(t)
    \/ \E t \in Threads : f_returns(t)
    \/ \E t \in Threads : f_panics(t)
    \/ \E t \in Threads : defer_uniq_lock(t)
    \/ \E t \in Threads : unlock_fair(t)
    \/ \E t \in Threads : downgrade(t)
    \/ \E t \in Threads : downgrade_from_raw(t)
    \/ \E t \in Threads : clone(t)
    \/ \E t \in Threads : ShareGuard_new(t)
    \/ \E t \in Threads : ShareGuard_new_locked(t)
    \/ \E t \in Threads : ShareGuard_try_new(t)
    \/ \E t \in Threads : ShareGuard_clone(t)
    \/ \E t \in Threads : ShareGuard_drop(t)

GuardSpec == GuardInit /\ [][GuardNext]_vars

\* ------------------------------------------------------------- once lock
(* once/local.rs: RawLock wraps the tagged local lock `inner` and keeps it  *)
(* private: callers reach the lock bit through RawExclusiveLock and the tag  *)
(* through Finish only.  The tagged lock itself is not part of the source    *)
(* files; its lock bit and tag are `locked` and `tag`, and `guard` holds the *)
(* callers that own an exc lock.  The lock is local to one thread, so every  *)
(* operation is one step; the callers are the parts of that thread's code    *)
(* that use the lock.                                                        *)

\* a | b on tag values
BitOr(a, b) ==
    (IF HasBit(a, DONE_BIT) \/ HasBit(b, DONE_BIT) THEN DONE_BIT ELSE 0)
    + (IF HasBit(a, POISON_BIT) \/ HasBit(b, POISON_BIT) THEN POISON_BIT ELSE 0)
\* or_tag(bits) -> previous
or_tag(bits) == [prev |-> tag, now |-> BitOr(tag, bits)]

\* what the operations of the once lock leave alone
onceRest == <<pc, key, innerVars, opVars, envVars, mutexVars, guardVars>>

\* the caller t has run operation o
Ran(t, o) ==
    /\ by' = t
    /\ op' = [op EXCEPT ![t] = o]

OnceInit == MutexInit /\ value = 0

\* Finish::is_done, local.rs:60-62
is_done(t) ==
    /\ ret' = [ret EXCEPT ![t] = HasBit(tag_read, DONE_BIT)]
    /\ Ran(t, "is_done")
    /\ UNCHANGED <<tag, lockVars, got, marked, poisoned, onceRest>>

\* Finish::mark_done, local.rs:65-67
mark_done(t) ==
    /\ tag' = or_tag(DONE_BIT).now
    /\ marked' = TRUE
    /\ Ran(t, "mark_done")
    /\ UNCHANGED <<ret, lockVars, got, poisoned, onceRest>>

\* a bug: the answer is taken from the tag as or_tag left it
get_and_mark_poisoned_returnsNew(t) ==
    /\ LET state == or_tag(POISON_BIT)
       IN  /\ tag' = state.now
           /\ ret' = [ret EXCEPT ![t] = HasBit(state.now, POISON_BIT)]
    /\ poisoned' = TRUE
    /\ Ran(t, "get_and_mark_poisoned")
    /\ UNCHANGED <<lockVars, got, marked, onceRest>>

\* Finish::get_and_mark_poisoned, local.rs:70-73
get_and_mark_poisoned(t) ==
    /\ LET state == or_tag(POISON_BIT)
       IN  /\ tag' = state.now
           /\ ret' = [ret EXCEPT ![t] = HasBit(state.prev, POISON_BIT)]
    /\ poisoned' = TRUE
    /\ Ran(t, "get_and_mark_poisoned")
    /\ UNCHANGED <<lockVars, got, marked, onceRest>>

\* RawExclusiveLock::exc_lock, local.rs:84-86: returns once the lock is acquired
exc_lock(t) ==
    /\ uniq_lock_ready
    /\ locked' = uniq_acquired
    /\ guard' = guard \cup {t}
    /\ Ran(t, "exc_lock")
    /\ UNCHANGED <<tag, ret, got, marked, poisoned, onceRest>>

\* RawExclusiveLock::exc_try_lock, local.rs:89-91
exc_try_lock(t) ==
    /\ locked' = (locked \/ uniq_try_lock_result)
    /\ guard' = IF uniq_try_lock_result THEN guard \cup {t} ELSE guard
    /\ ret' = [ret EXCEPT ![t] = uniq_try_lock_result]
    /\ Ran(t, "exc_try_lock")
    /\ UNCHANGED <<tag, got, marked, poisoned, onceRest>>

\* a bug: the unlock stores a zero state, tag bits included
exc_unlock_clearsTag(t) ==
    /\ t \in guard
    /\ locked' = uniq_released
    /\ guard' = guard \ {t}
    /\ tag' = 0
    /\ Ran(t, "exc_unlock")
    /\ UNCHANGED <<ret, got, marked, poisoned, onceRest>>

\* RawExclusiveLock::exc_unlock, local.rs:94-96; the caller owns the exc lock
exc_unlock(t) ==
    /\ t \in guard
    /\ locked' = uniq_released
    /\ guard' = guard \ {t}
    /\ Ran(t, "exc_unlock")
    /\ UNCHANGED <<tag, ret, got, marked, poisoned, onceRest>>

\* RawExclusiveLock::exc_bump, local.rs:99-101; the caller owns the exc lock
\* before it and owns it again after it
exc_bump(t) ==
    /\ t \in guard
    /\ Ran(t, "exc_bump")
    /\ UNCHANGED <<tag, lockVars, ret, got, marked, poisoned, onceRest>>

OnceNext ==
    \/ \E t \in Threads : is_done(t)
    \/ \E t \in Threads : mark_done(t)
    \/ \E t \in Threads : get_and_mark_poisoned(t)
    \/ \E t \in Threads : exc_lock(t)
    \/ \E t \in Threads : exc_try_lock(t)
    \/ \E t \in Threads : exc_unlock(t)
    \/ \E t \in Threads : exc_bump(t)

OnceSpec == OnceInit /\ [][OnceNext]_vars

\* The tagged lock used directly, as WakerSet uses its own (tag at
\* waker_set.rs:111, swap_tag at :201-204): the tag operations of the lock
\* beside its lock operations.
Tagged_tag(t) ==
    /\ got' = [got EXCEPT ![t] = tag_read]
    /\ Ran(t, "tag")
    /\ UNCHANGED <<tag, lockVars, ret, marked, poisoned, onceRest>>

Tagged_swap_tag(t, v) ==
    /\ tag' = swap_tag(v).now
    /\ got' = [got EXCEPT ![t] = swap_tag(v).prev]
    /\ Ran(t, "swap_tag")
    /\ UNCHANGED <<lockVars, ret, marked, poisoned, onceRest>>

Tagged_or_tag(t, bits) ==
    /\ tag' = or_tag(bits).now
    /\ got' = [got EXCEPT ![t] = or_tag(bits).prev]
    /\ Ran(t, "or_tag")
    /\ UNCHANGED <<lockVars, ret, marked, poisoned, onceRest>>

TaggedNext ==
    \/ \E t \in Threads : exc_lock(t)
    \/ \E t \in Threads : exc_try_lock(t)
    \/ \E t \in Threads : exc_unlock(t)
    \/ \E t \in Threads : exc_bump(t)
    \/ \E t \in Threads : Tagged_tag(t)
    \/ \E t \in Threads, v \in Tags : Tagged_swap_tag(t, v)
    \/ \E t \in Threads, bits \in Tags : Tagged_or_tag(t, bits)
    \/ \E t \in Threads : is_done(t)
    \/ \E t \in Threads : mark_done(t)
    \/ \E t \in Threads : get_and_mark_poisoned(t)

TaggedSpec == OnceInit /\ [][TaggedNext]_vars

\* ------------------------------------------------------------- claims
\* C1: at most one ExclusiveGuard of a Mutex exists in any state, and a
\* try_lock that executes while another guard is alive returns None.
C1_MutualExclusion ==
    /\ Cardinality(guard) <= 1
    /\ \A t \in Threads :
        (op[t] = "try_lock" /\ sawGuard[t]) =>
            (pc[t] = "refused" /\ ~ret[t] /\ t \notin guard)
\* a try_lock was refused while another thread's guard is alive
C1_Witness ==
    \E t, u \in Threads :
        /\ t # u /\ pc[t] = "refused" /\ sawGuard[t]
        /\ pc[u] = "held" /\ guard = {u}

C3_NotifyAnyWakesAtMostOne ==
    /\ anyWakes <= 1
    /\ \A t \in Threads :
        op[t] = "notify_any" =>
            /\ pc[t] \in {"drop", "unlock"} =>
                   (Cardinality(woke) <= 1 /\ (ret[t] <=> woke # {}))
            /\ pc[t] = "done" => ~ret[t]
\* an earlier notify_any has woken an entry, and a later one has been through
\* the loop, woken nothing and is about to return false
C3_Witness ==
    \E u \in Threads :
        /\ op[u] = "notify_any" /\ pc[u] = "drop"
        /\ ~ret[u] /\ woke = {} /\ anyWakes = 1

C6_InsertRemoveRoundTrip ==
    \A t \in Threads :
        (op[t] = "remove" /\ round.on /\ round.by = t /\ pc[t] \in {"drop", "unlock"}) =>
            /\ ~unwinding[t]
            /\ Live(entries) = Live(round.inner.entries)
            /\ Taken(entries) = Taken(round.inner.entries)
            /\ notifiable = round.inner.notifiable
            /\ pc[t] = "unlock" => tag = round.inner.tag
\* such a remove is about to return in a set that holds a Waiting and a
\* Notified entry
C6_Witness ==
    \E t \in Threads :
        /\ op[t] = "remove" /\ round.on /\ round.by = t /\ pc[t] = "unlock"
        /\ Live(entries) # {} /\ Taken(entries) # {}

\* C7: whenever the internal lock is not held, the tag's NOTIFIED bit is set
\* iff entries.len() - notifiable > 0 and its NOTIFIABLE bit iff
\* notifiable > 0; an operation has swapped the tag after its mutation of
\* Inner by the time it releases the lock.
C7_TagPublished ==
    (~locked \/ \E t \in Threads : pc[t] = "unlock") =>
        /\ HasBit(tag, NOTIFIED) <=> (SlabLen(entries) - notifiable # 0)
        /\ HasBit(tag, NOTIFIABLE) <=> (notifiable # 0)
\* the lock is free and both bits are published
C7_Witness ==
    /\ ~locked /\ tag = NOTIFIED + NOTIFIABLE
    /\ Live(entries) # {} /\ Taken(entries) # {}

C11_NotifyAnyExclusive ==
    \A t \in Threads :
        (op[t] = "notify_any" /\ pc[t] = "drop" /\ woke # {}) =>
            (Taken(pre.entries) = {} /\ Cardinality(woke) = 1)

\* C12: the wake handle stored by one insert is invoked at most once before
\* its entry is removed, whatever notify_any, notify_one, notify_all and
\* cancel calls run.
C12_NoDoubleWake ==
    \A k \in Keys : invoked[k] <= 1
\* a notify_all has woken the waiting entries and passed over one notified
\* before: every registered handle has been invoked once
C12_Witness ==
    \E t \in Threads :
        /\ op[t] = "notify_all" /\ pc[t] = "drop"
        /\ Taken(pre.entries) # {} /\ woke # {}
        /\ \A k \in SlabOccupied(entries) : invoked[k] = 1

\* C18: notify_one and the transfer of cancel wake the Waiting entry with the
\* smallest key, notify_any wakes the first entry in iteration order, and a
\* notify call leaves every entry at its key.
C18_NotificationOrder ==
    \A t \in Threads :
        pc[t] = "drop" =>
            /\ (op[t] \in {"notify_one", "cancel"} /\ woke # {}) =>
                   woke = {Min(Live(pre.entries))}
            /\ (op[t] = "notify_any" /\ woke # {}) =>
                   woke = {Min(SlabOccupied(pre.entries))}
            /\ op[t] \in NotifyOps =>
                   /\ SlabOccupied(entries) = SlabOccupied(pre.entries)
                   /\ Taken(entries) = Taken(pre.entries) \cup woke
\* a notify_one has passed over a notified entry and woken the first of the
\* two waiting entries behind it
C18_Witness ==
    \E t \in Threads :
        /\ op[t] = "notify_one" /\ pc[t] = "drop"
        /\ \E i, j, k \in Keys :
            /\ i < j /\ j < k
            /\ pre.entries[i] = "None" /\ woke = {j} /\ entries[k] = "Some"

\* C19: notify_all and notify_one called with NOTIFIABLE clear, and notify_any
\* called with NOTIFIABLE clear or NOTIFIED set, return false without taking
\* the internal lock and leave the slab, notifiable and the tag as they are;
\* the call can be made while another thread holds the lock.
C19_FastPathRejects ==
    /\ [](\A t \in Threads :
            (locked /\ pc[t] = "idle" /\ calls < MaxCalls) =>
                (ENABLED notify_any(t) /\ ENABLED notify_one(t) /\ ENABLED notify_all(t)))
    /\ [][\A t \in Threads :
            /\ (/\ pc[t] = "idle" /\ pc'[t] # "idle" /\ op'[t] \in NotifyOps
                /\ \/ ~HasBit(tag, NOTIFIABLE)
                   \/ (op'[t] = "notify_any" /\ HasBit(tag, NOTIFIED))) =>
                   /\ pc'[t] = "done" /\ ~ret'[t]
                   /\ UNCHANGED <<entries, notifiable, tag, locked, guard>>
            /\ pc[t] = "done" =>
                   /\ pc'[t] \in {"done", "idle"} /\ ~ret'[t] /\ t \notin guard'
                   /\ (pc'[t] = "idle" => UNCHANGED <<entries, notifiable, tag, locked, guard>>)
       ]_vars
\* a notify_any has been turned away by a tag with NOTIFIED set while another
\* thread holds the lock
C19_Witness ==
    \E t, u \in Threads :
        /\ op[t] = "notify_any" /\ pc[t] = "done"
        /\ HasBit(tag, NOTIFIED) /\ HasBit(tag, NOTIFIABLE)
        /\ locked /\ guard = {u} /\ pc[u] = "body"

\* C17: a thread that holds the Mutex observes the protected value as the
\* latest guard holder wrote it (at first the value passed to new): nobody
\* writes it behind the holder's back.
C17_ValueVisible ==
    \A t \in Threads :
        (pc[t] = "held" /\ seen[t] # NoValue) =>
            /\ seen[t] = value
            /\ seen[t] = lastWrite.val
            /\ lastWrite.by \in guard => lastWrite.by = t
\* thread t holds the guard and has read what another thread wrote and left
C17_Witness ==
    \E t, u \in Threads :
        /\ t # u /\ pc[t] = "held" /\ pc[u] = "idle"
        /\ lastWrite.by = u /\ seen[t] = lastWrite.val

\* C13: RawExclusiveGuard::unlocked(f) and unlocked_fair(f), called on a guard
\* without clones, release the lock before f runs: while f executes the lock
\* is held only by threads that acquired it meanwhile, and is free for them
\* when nobody did. When unlocked hands control back, by return or by
\* unwinding out of f, the calling guard holds the lock again and no other
\* guard does.
C13_UnlockedReacquires ==
    \A t \in Threads :
        /\ pc[t] = "in_f" =>
              /\ \A u \in Threads \ {t} :
                     (eg[u] >= 1 /\ ~InUnlocked(u)) => uniq = eg[u]
              /\ (\A u \in Threads \ {t} : ExcOwned(u) = 0 /\ ShrOwned(u) = 0)
                     => uniq_can_lock
        /\ (op[t] \in {"unlocked", "unlocked_fair"} /\ pc[t] \in {"idle", "unwind"}) =>
              /\ eg[t] = 1 /\ uniq = 1 /\ shr = 0
              /\ pc[t] = "unwind" <=> unwinding[t]
              /\ \A u \in Threads \ {t} : ExcOwned(u) = 0 /\ ShrOwned(u) = 0

\* f panicked, the lock was taken again on the way out, and another thread waits for it
C13_Witness ==
    \E t \in Threads : \E u \in Threads \ {t} :
        /\ pc[t] = "unwind" /\ op[t] = "unlocked"
        /\ eg[t] = 1 /\ uniq = 1
        /\ pc[u] = "uniq_lock"

\* C14: every guard releases its acquisition exactly once on every exit path.
\* The exc locks held are exactly those the live exclusive guards stand for
\* and the shr locks exactly those of the live share guards, whether guards
\* went by a drop, by unwinding, by unlock_fair or by downgrade: no release is
\* missed and none happens twice. Once every guard is gone, also after a
\* panic, the lock is free and lock() / try_lock() succeed again.
C14_ReleasedExactlyOnce ==
    /\ uniq = ExcOwnedAll
    /\ shr = ShrOwnedAll
    /\ (\A t \in Threads : eg[t] = 0 /\ sg[t] = 0 /\ pc[t] # "from_raw") => uniq_can_lock
    /\ \A t \in Threads : pc[t] = "panicked" => (eg[t] = 0 /\ sg[t] = 0)

\* one thread panicked while it held a guard, and another thread holds the lock now
C14_Witness ==
    \E t \in Threads : \E u \in Threads \ {t} :
        /\ pc[t] = "panicked"
        /\ pc[u] = "idle" /\ op[u] = "new" /\ eg[u] = 1 /\ uniq = 1

\* C15: downgrade(self), called on a guard without clones, converts exclusive
\* into shared ownership atomically. From the start of downgrade to the
\* creation of the share guard the lock is never fully unlocked: a shr lock is
\* held for the guard to come, no thread has acquired an exclusive lock, and
\* the step that gives up the exc lock is the step that takes the shr lock.
C15_DowngradeAtomic ==
    /\ [](\A t \in Threads :
            /\ pc[t] = "from_raw" =>
                  /\ shr >= 1 /\ uniq = 0
                  /\ \A u \in Threads : eg[u] = 0 \/ InUnlocked(u)
            /\ (op[t] = "downgrade" /\ pc[t] = "idle") =>
                  (sg[t] >= 1 /\ shr >= sg[t] /\ uniq = 0))
    /\ [][\A t \in Threads :
            (op'[t] = "downgrade" /\ pc[t] = "idle" /\ pc'[t] = "from_raw") =>
                (uniq = 1 /\ uniq' = 0 /\ shr' = shr + 1)]_vars

\* the conversion is under way while another thread waits for an exclusive lock
C15_Witness ==
    \E t \in Threads : \E u \in Threads \ {t} :
        /\ pc[t] = "from_raw" /\ op[t] = "downgrade"
        /\ pc[u] = "uniq_lock"

C20_CloneSharesAcquisition ==
    /\ [](\A t \in Threads :
            /\ (eg[t] >= 1 /\ ~InUnlocked(t)) =>
                  /\ uniq = eg[t] /\ shr = 0 /\ ~uniq_can_lock
                  /\ \A u \in Threads \ {t} : ExcOwned(u) = 0 /\ ShrOwned(u) = 0
                  /\ \A u \in Threads \ {t} :
                         pc[u] = "uniq_lock" => ~ENABLED Guard_new_locked(u)
            /\ (pc[t] = "idle" /\ eg[t] >= 1 /\ eg[t] < MaxGuards) => ENABLED clone(t))
    /\ [][\A t \in Threads :
            (op'[t] = "clone" /\ eg'[t] # eg[t]) =>
                /\ eg[t] >= 1 /\ eg'[t] = eg[t] + 1
                /\ uniq' = uniq + 1 /\ shr' = shr
                /\ pc[t] = "idle" /\ pc'[t] = "idle"]_vars

\* a clone was made and one of the two guards dropped: the lock is still held
\* and the other thread still waits for it
C20_Witness ==
    \E t \in Threads : \E u \in Threads \ {t} :
        /\ pc[t] = "idle" /\ op[t] = "drop" /\ eg[t] = 1 /\ uniq = 1
        /\ pc[u] = "uniq_lock"

C22_OnceTagConvention ==
    /\ [](/\ HasBit(tag, DONE_BIT) <=> marked
          /\ HasBit(tag, POISON_BIT) <=> poisoned)
    /\ [][LET t == by'
          IN  /\ op'[t] = "is_done" => (ret'[t] <=> marked)
              /\ op'[t] = "mark_done" =>
                     /\ HasBit(tag', DONE_BIT)
                     /\ HasBit(tag', POISON_BIT) <=> HasBit(tag, POISON_BIT)
              /\ op'[t] = "get_and_mark_poisoned" =>
                     /\ ret'[t] <=> poisoned
                     /\ ret'[t] <=> HasBit(tag, POISON_BIT)
                     /\ HasBit(tag', POISON_BIT)
                     /\ HasBit(tag', DONE_BIT) <=> HasBit(tag, DONE_BIT)]_vars

\* a second get_and_mark_poisoned has answered true on a lock that is done
C22_Witness ==
    \E t \in Threads :
        /\ by = t /\ op[t] = "get_and_mark_poisoned" /\ ret[t]
        /\ marked /\ tag = DONE_BIT + POISON_BIT
        /\ \E u \in Threads \ {t} : op[u] = "is_done" /\ ~ret[u]

====
